---- MODULE Spec2Model ----
(***************************************************************************)
(* Kisunla treatment flowsheet (src/kisunla-streamlit.py).                 *)
(*                                                                         *)
(* The program is a Streamlit script: every user interaction re-runs       *)
(* main() from the top against st.session_state.  The model has one action *)
(* per user interaction, each standing for the whole script run the        *)
(* interaction triggers (init_session_state, the four render_* functions   *)
(* in order, the handler of the pressed button and a trailing st.rerun).   *)
(* An uncaught Python exception aborts the run at the line that raises it; *)
(* run_error records the exception of the last run, and the widgets drawn  *)
(* after that line are not on the page for the next interaction.           *)
(*                                                                         *)
(* Line 495 of the script (card markup with a backslash inside an f-string *)
(* expression, which Python before 3.12 rejects) only formats a card and   *)
(* is read as the markup it is meant to produce.                           *)
(*                                                                         *)
(* The two calculator functions are pure; they are operators, used by the  *)
(* add-infusion handler and exercised on their own by SpecCalc.            *)
(***************************************************************************)
EXTENDS Integers, Sequences, FiniteSets, TLC

VARIABLES
    session_state,   \* st.session_state: a function from the keys present to their values
    run_event,       \* the interaction that triggered the last script run
    run_error,       \* the exception that ended the last script run, or "none"
    saves,           \* records appended in this session (bounded by MaxSaves)
    calc_call,       \* SpecCalc: the pending or last call of a calculator function
    calc_result      \* SpecCalc: what that call returned

vars == <<session_state, run_event, run_error, saves, calc_call, calc_result>>

(***************************************************************************)
(* Bounds of the model.                                                    *)
(***************************************************************************)
MaxSaves == 1              \* appends per session
MaxInfusionNumber == 5     \* largest infusion number typed into the form
MinCalcNumber == 3         \* SpecCalc calls calculate_kisunla_dose on -MinCalcNumber..MaxCalcNumber
MaxCalcNumber == 40
MaxDose == 1500            \* SpecCalc calls calculate_volume on 1..MaxDose

(***************************************************************************)
(* Rational numbers, for the float arithmetic of calculate_volume: a value *)
(* is a pair num/den in lowest terms with den > 0.  Rounding of IEEE       *)
(* doubles is not modelled; the quotients of the protocol doses are exact. *)
(***************************************************************************)
RECURSIVE Gcd(_, _)
Gcd(a, b) == IF b = 0 THEN a ELSE Gcd(b, a % b)

Rat(n, d) == LET g == Gcd(n, d) IN [num |-> n \div g, den |-> d \div g]

RatDiv(x, k) == Rat(x.num, x.den * k)

RatMul(x, k) == Rat(x.num * k, x.den)

Float(n) == [num |-> n, den |-> 1]

(***************************************************************************)
(* Dosing engine.                                                          *)
(***************************************************************************)
\* a titration that never reaches the maintenance dose
calculate_kisunla_dose_uncapped(infusion_number) ==
    IF infusion_number >= 1 THEN infusion_number * 350 ELSE 1400

calculate_kisunla_dose(infusion_number) ==
    IF infusion_number = 1 THEN 350
    ELSE IF infusion_number = 2 THEN 700
    ELSE IF infusion_number = 3 THEN 1050
    ELSE 1400

\* the concentration the sample data suggests (1050 mg -> 30 mL)
calculate_volume_10ml(dose) == RatMul(RatDiv(Float(dose), 350), 10)

calculate_volume(dose) == RatMul(RatDiv(Float(dose), 350), 20)

(***************************************************************************)
(* Python and Streamlit primitives used by the script.                     *)
(***************************************************************************)
NoError == [exc |-> "none", line |-> 0]

NotRun == [exc |-> "not_run", line |-> 0]

Raised(exc, line) == [exc |-> exc, line |-> line]

\* st.session_state.get(key, default)
Get(ss, key, default) == IF key \in DOMAIN ss THEN ss[key] ELSE default

\* st.session_state.<key> = value
SetKey(ss, key, value) ==
    [k \in (DOMAIN ss) \cup {key} |-> IF k = key THEN value ELSE ss[k]]

\* max(list): Python scans the list keeping the largest element seen;
\* on an empty list it raises ValueError.
RECURSIVE MaxFrom(_, _, _)
MaxFrom(list, i, best) ==
    IF i > Len(list) THEN best
    ELSE MaxFrom(list, i + 1, IF list[i] > best THEN list[i] ELSE best)

PyMax(list) ==
    IF Len(list) = 0 THEN [raised |-> "ValueError", value |-> 0]
    ELSE [raised |-> "none", value |-> MaxFrom(list, 2, list[1])]

\* [rec['id'] for rec in log]
Ids(log) == [i \in 1..Len(log) |-> log[i].id]

\* log[0]: the first element, IndexError on an empty list
First(log) ==
    IF Len(log) = 0 THEN [raised |-> "IndexError"]
    ELSE [raised |-> "none", value |-> log[1]]

\* list.insert(index, item) for 0 <= index <= len(list)
Insert(list, index, item) ==
    SubSeq(list, 1, index) \o <<item>> \o SubSeq(list, index + 1, Len(list))

\* date.strftime('%Y-%m-%d'): zero-padded decimal fields joined by '-'
Digit(d) ==
    CASE d = 0 -> "0" [] d = 1 -> "1" [] d = 2 -> "2" [] d = 3 -> "3"
      [] d = 4 -> "4" [] d = 5 -> "5" [] d = 6 -> "6" [] d = 7 -> "7"
      [] d = 8 -> "8" [] d = 9 -> "9"

Pad2(n) == Digit((n \div 10) % 10) \o Digit(n % 10)

Pad4(n) == Pad2(n \div 100) \o Pad2(n % 100)

strftime(d) == Pad4(d.year) \o "-" \o Pad2(d.month) \o "-" \o Pad2(d.day)

(***************************************************************************)
(* init_session_state: the sample data the session is created with.        *)
(***************************************************************************)
SeedInfusion(id, dt, dose, volume, notes) ==
    [id |-> id, number |-> id, date |-> dt, dose |-> dose, volume |-> Float(volume),
     status |-> "completed", notes |-> notes]

SeedInfusions ==
    << SeedInfusion(21, "2025-08-27", 1400, 40, "Maintenance dose - patient tolerated well"),
       SeedInfusion(20, "2025-08-13", 1400, 40, ""),
       SeedInfusion(19, "2025-07-28", 1400, 40, ""),
       SeedInfusion(18, "2025-05-12", 1400, 40, ""),
       SeedInfusion(17, "2025-05-05", 1050, 30, "Third dose - titration phase") >>

SeedMri(id, dt, notes) == [id |-> id, date |-> dt, type |-> "Baseline", notes |-> notes]

SeedMriTracking ==
    << SeedMri(5, "2025-08-27", "Stable - no new ARIA findings"),
       SeedMri(4, "2025-08-13", "N/A"),
       SeedMri(3, "2025-07-30", "Mild FLAIR changes noted"),
       SeedMri(2, "2025-07-15", "Baseline study"),
       SeedMri(1, "2025-06-05", "Pre-treatment baseline") >>

SeedAria(id, dt, flair, micro) ==
    [id |-> id, date |-> dt,
     aria_e |-> [flair_severity |-> flair, clinical_severity |-> "Asymptomatic"],
     aria_h |-> [microhemorrhages |-> micro, siderosis |-> "None"],
     symptoms |-> <<>>]

SeedAriaAssessments ==
    << SeedAria(4, "2025-08-27", "None", "None"),
       SeedAria(3, "2025-08-13", "None", "None"),
       SeedAria(2, "2025-07-30", "Mild", "Mild (2-4)") >>

SeedPatientData ==
    [infusions |-> SeedInfusions,
     mri_tracking |-> SeedMriTracking,
     aria_assessments |-> SeedAriaAssessments,
     cms_registry |-> "123445",
     apoe4_status |-> "Homozygote (e4/e4)",
     overall_aria_risk |-> "45%",
     symptomatic_aria |-> "9%",
     serious_events |-> "3%"]

\* a session created with nothing in the store
init_session_state_empty(ss) ==
    IF "patient_data" \notin DOMAIN ss
    THEN SetKey(ss, "patient_data",
                [infusions |-> <<>>, mri_tracking |-> <<>>, aria_assessments |-> <<>>,
                 cms_registry |-> "", apoe4_status |-> "Not Tested",
                 overall_aria_risk |-> "Not Assessed", symptomatic_aria |-> "Not Assessed",
                 serious_events |-> "Not Assessed"])
    ELSE ss

init_session_state(ss) ==
    IF "patient_data" \notin DOMAIN ss
    THEN SetKey(ss, "patient_data", SeedPatientData)
    ELSE ss

(***************************************************************************)
(* What the forms offer, and the values the model enters into them.        *)
(***************************************************************************)
\* st.number_input("Infusion Number", min_value=1, ...)
InfusionNumbers == 1..MaxInfusionNumber

\* st.date_input: calendar dates picked in the model
Dates == { [year |-> 2025, month |-> 9, day |-> 3],
           [year |-> 2026, month |-> 11, day |-> 24] }

\* st.text_area: free text typed in the model
NotesTexts == { "", "tolerated well" }

\* st.selectbox("MRI Type", ...)
MriTypeOptions == << "Baseline", "Follow-update", "Safety" >>

FlairOptions == << "None", "Mild", "Moderate", "Severe" >>

ClinicalOptions == << "Asymptomatic", "Mild", "Moderate", "Severe" >>

\* the two signs that are not ASCII are spelled out
MicrohemorrhageOptions == << "None", "Mild (<=4)", "Moderate (5-9)", "Severe (>=10)" >>

SiderosisOptions == << "None", "Mild (1 area)", "Moderate (2 areas)", "Severe (>2 areas)" >>

\* the six checkboxes, in the order the script tests them
SymptomBoxes ==
    << "Weakness", "Dizziness", "Visual Changes", "Nausea", "Confusion", "Headache" >>

\* the options of a selectbox, as a set
Options(list) == { list[i] : i \in 1..Len(list) }

\* the findings entered in the model: the four selectboxes move together
\* through their severity grades, and one of three sets of boxes is ticked
Grades == 1..4

TickedSets == { {}, {"Headache"}, {"Nausea", "Weakness"} }

\* symptoms = []; if st.checkbox(b): symptoms.append(b), box by box
RECURSIVE SymptomsFrom(_, _)
SymptomsFrom(i, ticked) ==
    IF i > Len(SymptomBoxes) THEN <<>>
    ELSE (IF SymptomBoxes[i] \in ticked THEN <<SymptomBoxes[i]>> ELSE <<>>)
         \o SymptomsFrom(i + 1, ticked)

Symptoms(ticked) == SymptomsFrom(1, ticked)

(***************************************************************************)
(* The records the three Save handlers build and where they put them.      *)
(***************************************************************************)
\* the number of records + 1, which repeats an id when ids do not start at 1
NextId_count(log) ==
    IF Len(log) = 0 THEN [raised |-> "ValueError", value |-> 0]
    ELSE [raised |-> "none", value |-> Len(log) + 1]

\* the id after the newest record's, which is right only for a log in descending order
NextId_after_first(log) ==
    IF Len(log) = 0 THEN [raised |-> "ValueError", value |-> 0]
    ELSE [raised |-> "none", value |-> log[1].id + 1]

\* max([rec['id'] for rec in log]) + 1
NextId(log) ==
    LET m == PyMax(Ids(log))
    IN  IF m.raised # "none" THEN m ELSE [raised |-> "none", value |-> m.value + 1]

\* the volume taken at 10 mL per 350 mg, as in the sample records
new_infusion_sample_volume(id, infusion_number, infusion_date, notes) ==
    LET calculated_dose == calculate_kisunla_dose(infusion_number)
    IN  [id |-> id,
         number |-> infusion_number,
         date |-> strftime(infusion_date),
         dose |-> calculated_dose,
         volume |-> RatMul(RatDiv(Float(calculated_dose), 350), 10),
         status |-> "completed",
         notes |-> notes]

new_infusion(id, infusion_number, infusion_date, notes) ==
    LET calculated_dose == calculate_kisunla_dose(infusion_number)
    IN  [id |-> id,
         number |-> infusion_number,
         date |-> strftime(infusion_date),
         dose |-> calculated_dose,
         volume |-> calculate_volume(calculated_dose),
         status |-> "completed",
         notes |-> notes]

new_mri(id, mri_date, mri_type, notes) ==
    [id |-> id, date |-> strftime(mri_date), type |-> mri_type, notes |-> notes]

new_assessment(id, aria_date, flair_severity, clinical_severity, microhemorrhages, siderosis, symptoms) ==
    [id |-> id,
     date |-> strftime(aria_date),
     aria_e |-> [flair_severity |-> flair_severity,
                 clinical_severity |-> clinical_severity],
     aria_h |-> [microhemorrhages |-> microhemorrhages, siderosis |-> siderosis],
     symptoms |-> symptoms]

\* list.append instead of list.insert(0, ...)
InsertFront_append(log, record) == Insert(log, Len(log), record)

\* st.session_state.patient_data[log].insert(0, record)
InsertFront(log, record) == Insert(log, 0, record)

(***************************************************************************)
(* A script run.  render_summary reads the first infusion and the first    *)
(* MRI record; the other render functions only loop over the logs.         *)
(***************************************************************************)
render_summary(patient_data) ==
    IF First(patient_data.infusions).raised # "none"
    THEN Raised(First(patient_data.infusions).raised, 177)
    ELSE IF First(patient_data.mri_tracking).raised # "none"
    THEN Raised(First(patient_data.mri_tracking).raised, 226)
    ELSE NoError

\* a run in which no handler raises ends as render_summary ends
Render(ss) == render_summary(ss["patient_data"])

\* the widget drawn at a source line is on the page after the last run
OnPage(line) ==
    \/ run_error.exc = "none"
    \/ run_error.exc # "not_run" /\ line < run_error.line

Shown(flag) == Get(session_state, flag, FALSE)

CalcIdle == [fn |-> "idle", arg |-> 0]

(***************************************************************************)
(* The first run of a session: nothing has been clicked yet.               *)
(***************************************************************************)
Load ==
    /\ run_error.exc = "not_run"
    /\ LET ss == init_session_state(session_state)
       IN  /\ session_state' = ss
           /\ run_error' = Render(ss)
    /\ run_event' = "load"
    /\ UNCHANGED <<saves, calc_call, calc_result>>

(***************************************************************************)
(* The three "Add" buttons (lines 276, 369, 457) set their flag; the modal *)
(* is drawn later in the same run.                                         *)
(***************************************************************************)
ClickAdd(line, flag, event) ==
    /\ OnPage(line)
    /\ LET ss == init_session_state(session_state)
       IN  IF Render(ss).exc # "none"
           THEN /\ session_state' = ss
                /\ run_error' = Render(ss)
           ELSE /\ session_state' = SetKey(ss, flag, TRUE)
                /\ run_error' = NoError
    /\ run_event' = event
    /\ UNCHANGED <<saves, calc_call, calc_result>>

ClickAddInfusion == ClickAdd(276, "show_add_infusion", "add_infusion")

ClickAddMri == ClickAdd(369, "show_add_mri", "add_mri")

ClickAddAria == ClickAdd(457, "show_add_aria", "add_aria")

(***************************************************************************)
(* The three Cancel buttons (lines 357, 445, 567): flag off, st.rerun().   *)
(***************************************************************************)
\* a Cancel that re-runs the script without clearing its flag
Cancel_keeps_flag(line, flag, event) ==
    /\ OnPage(line)
    /\ Shown(flag)
    /\ session_state' = init_session_state(session_state)
    /\ run_error' = Render(init_session_state(session_state))
    /\ run_event' = event
    /\ UNCHANGED <<saves, calc_call, calc_result>>

Cancel(line, flag, event) ==
    /\ OnPage(line)
    /\ Shown(flag)
    /\ LET ss == init_session_state(session_state)
       IN  IF Render(ss).exc # "none"
           THEN /\ session_state' = ss
                /\ run_error' = Render(ss)
           ELSE /\ session_state' = SetKey(ss, flag, FALSE)
                /\ run_error' = Render(SetKey(ss, flag, FALSE))
    /\ run_event' = event
    /\ UNCHANGED <<saves, calc_call, calc_result>>

CancelInfusion == Cancel(357, "show_add_infusion", "cancel_infusion")

CancelMri == Cancel(445, "show_add_mri", "cancel_mri")

CancelAria == Cancel(567, "show_add_aria", "cancel_aria")

(***************************************************************************)
(* The three Save buttons of the forms.  The record is built (its id       *)
(* first: max() over the ids raises on an empty log and ends the run),     *)
(* put at the front of its log, the flag is cleared and the script is run  *)
(* again by st.rerun().                                                    *)
(***************************************************************************)
\* the store the handler of this run works on, and the id it gives its record
StoreNow == init_session_state(session_state)["patient_data"]

NewId(log) == NextId(StoreNow[log])

\* a Save that also derives the overall ARIA risk from the assessment log
Save_recomputes_risk(line, raise_line, flag, log, event, record) ==
    /\ OnPage(line)
    /\ Shown(flag)
    /\ saves < MaxSaves
    /\ LET ss == init_session_state(session_state)
           pd == ss["patient_data"]
           id == NewId(log)
       IN  IF Render(ss).exc # "none"
           THEN /\ session_state' = ss
                /\ run_error' = Render(ss)
                /\ saves' = saves
           ELSE IF id.raised # "none"
           THEN /\ session_state' = ss
                /\ run_error' = Raised(id.raised, raise_line)
                /\ saves' = saves
           ELSE LET pd2 == [pd EXCEPT ![log] = InsertFront(pd[log], record),
                                      !.overall_aria_risk =
                                          IF log = "aria_assessments" THEN "recomputed" ELSE @]
                    ss2 == SetKey(SetKey(ss, "patient_data", pd2), flag, FALSE)
                IN  /\ session_state' = ss2
                    /\ run_error' = Render(ss2)
                    /\ saves' = saves + 1
    /\ run_event' = event
    /\ UNCHANGED <<calc_call, calc_result>>

\* the part the three handlers share; record is the record built with NewId(log)
Save(line, raise_line, flag, log, event, record) ==
    /\ OnPage(line)
    /\ Shown(flag)
    /\ saves < MaxSaves
    /\ LET ss == init_session_state(session_state)
           pd == ss["patient_data"]
           id == NewId(log)
       IN  IF Render(ss).exc # "none"
           THEN /\ session_state' = ss
                /\ run_error' = Render(ss)
                /\ saves' = saves
           ELSE IF id.raised # "none"
           THEN /\ session_state' = ss
                /\ run_error' = Raised(id.raised, raise_line)
                /\ saves' = saves
           ELSE LET pd2 == [pd EXCEPT ![log] = InsertFront(pd[log], record)]
                    ss2 == SetKey(SetKey(ss, "patient_data", pd2), flag, FALSE)
                IN  /\ session_state' = ss2
                    /\ run_error' = Render(ss2)
                    /\ saves' = saves + 1
    /\ run_event' = event
    /\ UNCHANGED <<calc_call, calc_result>>

SaveInfusion(infusion_number, infusion_date, notes) ==
    Save(340, 343, "show_add_infusion", "infusions", "save_infusion",
         new_infusion(NewId("infusions").value, infusion_number, infusion_date, notes))

SaveMri(mri_date, mri_type, notes) ==
    Save(431, 434, "show_add_mri", "mri_tracking", "save_mri",
         new_mri(NewId("mri_tracking").value, mri_date, mri_type, notes))

SaveAria(aria_date, grade, ticked) ==
    Save(546, 549, "show_add_aria", "aria_assessments", "save_aria",
         new_assessment(NewId("aria_assessments").value, aria_date, FlairOptions[grade],
                        ClinicalOptions[grade], MicrohemorrhageOptions[grade],
                        SiderosisOptions[grade], Symptoms(ticked)))

(***************************************************************************)
(* The floating Save button (line 168) only shows a message.               *)
(***************************************************************************)
ClickSave ==
    /\ run_error.exc = "none"
    /\ session_state' = init_session_state(session_state)
    /\ run_error' = Render(init_session_state(session_state))
    /\ run_event' = "save_button"
    /\ UNCHANGED <<saves, calc_call, calc_result>>

(***************************************************************************)
(* The program: a new session, nothing in st.session_state.                *)
(***************************************************************************)
EmptySession == [k \in {} |-> FALSE]

Init ==
    /\ session_state = EmptySession
    /\ run_event = "none"
    /\ run_error = NotRun
    /\ saves = 0
    /\ calc_call = CalcIdle
    /\ calc_result = [raised |-> "none", value |-> 0]

Next ==
    \/ Load
    \/ ClickAddInfusion
    \/ ClickAddMri
    \/ ClickAddAria
    \/ CancelInfusion
    \/ CancelMri
    \/ CancelAria
    \/ \E n \in InfusionNumbers, d \in Dates, t \in NotesTexts : SaveInfusion(n, d, t)
    \/ \E d \in Dates, i \in 1..Len(MriTypeOptions), t \in NotesTexts :
           SaveMri(d, MriTypeOptions[i], t)
    \/ \E d \in Dates, g \in Grades, b \in TickedSets : SaveAria(d, g, b)
    \/ ClickSave

Spec == Init /\ [][Next]_vars

(***************************************************************************)
(* The handlers over any store.  init_session_state leaves a patient_data  *)
(* that is already in the session as it is (line 85), so the handlers'     *)
(* contracts are also checked from sessions that hold a store other than   *)
(* the sample data: logs whose ids sit in any order, and empty logs.  The  *)
(* script itself never puts such a store there: from Init every log is     *)
(* non-empty and in descending id order.                                   *)
(***************************************************************************)
\* the ids a stored log is made of
StoredIds == { 2, 5, 9 }

\* every ordering of every subset of StoredIds, the empty list included
IdLists ==
    { s \in UNION { [1..n -> StoredIds] : n \in 0..Cardinality(StoredIds) } :
        \A i, j \in 1..Len(s) : i # j => s[i] # s[j] }

StoredStore(ids, aria_ids) ==
    [SeedPatientData EXCEPT
        !.infusions = [i \in 1..Len(ids) |-> SeedInfusion(ids[i], "2025-01-06", 1400, 40, "")],
        !.mri_tracking = [i \in 1..Len(ids) |-> SeedMri(ids[i], "2025-01-06", "")],
        !.aria_assessments =
            [i \in 1..Len(aria_ids) |-> SeedAria(aria_ids[i], "2025-01-06", "None", "None")]]

InitStore ==
    /\ \/ session_state = EmptySession
       \/ \E ids \in IdLists, aria_ids \in IdLists :
              /\ aria_ids \in { <<>>, ids }
              /\ session_state = [k \in {"patient_data"} |-> StoredStore(ids, aria_ids)]
    /\ run_event = "none"
    /\ run_error = NotRun
    /\ saves = 0
    /\ calc_call = CalcIdle
    /\ calc_result = [raised |-> "none", value |-> 0]

\* the interactions of Next, the forms filled with one date and no notes
StoreDate == [year |-> 2025, month |-> 9, day |-> 3]

NextStore ==
    \/ Load
    \/ ClickAddInfusion
    \/ ClickAddMri
    \/ ClickAddAria
    \/ CancelInfusion
    \/ CancelMri
    \/ CancelAria
    \/ \E n \in InfusionNumbers : SaveInfusion(n, StoreDate, "")
    \/ \E i \in 1..Len(MriTypeOptions) : SaveMri(StoreDate, MriTypeOptions[i], "")
    \/ \E g \in Grades : SaveAria(StoreDate, g, {})
    \/ ClickSave

SpecStore == InitStore /\ [][NextStore]_vars

(***************************************************************************)
(* The calculator functions on their own: one call per behaviour, the      *)
(* argument drawn from a range that includes numbers the form never sends. *)
(***************************************************************************)
CallDose ==
    /\ calc_call.fn = "calculate_kisunla_dose"
    /\ calc_call' = [calc_call EXCEPT !.fn = "calculate_kisunla_dose returned"]
    /\ calc_result' = [raised |-> "none", value |-> calculate_kisunla_dose(calc_call.arg)]
    /\ UNCHANGED <<session_state, run_event, run_error, saves>>

CallVolume ==
    /\ calc_call.fn = "calculate_volume"
    /\ calc_call' = [calc_call EXCEPT !.fn = "calculate_volume returned"]
    /\ calc_result' = [raised |-> "none", value |-> calculate_volume(calc_call.arg)]
    /\ UNCHANGED <<session_state, run_event, run_error, saves>>

InitCalc ==
    /\ session_state = EmptySession
    /\ run_event = "none"
    /\ run_error = NotRun
    /\ saves = 0
    /\ \/ \E n \in (0 - MinCalcNumber)..MaxCalcNumber :
              calc_call = [fn |-> "calculate_kisunla_dose", arg |-> n]
       \/ \E d \in 1..MaxDose :
              calc_call = [fn |-> "calculate_volume", arg |-> d]
    /\ calc_result = [raised |-> "none", value |-> 0]

NextCalc == CallDose \/ CallVolume

SpecCalc == InitCalc /\ [][NextCalc]_vars

(***************************************************************************)
(* Properties.                                                             *)
(***************************************************************************)
LogNames == { "infusions", "mri_tracking", "aria_assessments" }

SaveEvent(log) ==
    CASE log = "infusions" -> "save_infusion"
      [] log = "mri_tracking" -> "save_mri"
      [] log = "aria_assessments" -> "save_aria"

HasStore == "patient_data" \in DOMAIN session_state

Log(log) == session_state["patient_data"][log]

IdSet(log) == { Log(log)[i].id : i \in 1..Len(Log(log)) }

SetMax(S) == CHOOSE m \in S : \A x \in S : x <= m

\* this step is a Save of the form of log that appended its record
Saved(log) == run_event' = SaveEvent(log) /\ saves' = saves + 1

\* this step is a Save pressed in the form of log
SavePressed(log) == run_event' = SaveEvent(log)

DoseReturned == calc_call.fn = "calculate_kisunla_dose returned"

VolumeReturned == calc_call.fn = "calculate_volume returned"

\* C1: the dose is 350 mg for infusion 1, 700 mg for infusion 2, 1050 mg for
\* infusion 3 and 1400 mg for every infusion number from 4 on, however large.
C1_DoseTable ==
    DoseReturned =>
        /\ calc_call.arg = 1 => calc_result.value = 350
        /\ calc_call.arg = 2 => calc_result.value = 700
        /\ calc_call.arg = 3 => calc_result.value = 1050
        /\ calc_call.arg >= 4 => calc_result.value = 1400

C1_Witness ==
    DoseReturned /\ calc_call.arg = MaxCalcNumber /\ calc_result.value = 1400

\* C2: the volume of a positive dose d is d / 350 * 20 mL (as an exact
\* quotient v: 350 * v = 20 * d), which is 20, 40, 60 and 80 mL for the doses
\* 350, 700, 1050 and 1400 mg.
C2_VolumeFormula ==
    VolumeReturned =>
        LET d == calc_call.arg
            v == calc_result.value
        IN  /\ v.den > 0
            /\ 350 * v.num = 20 * d * v.den
            /\ d = 350 => v = Float(20)
            /\ d = 700 => v = Float(40)
            /\ d = 1050 => v = Float(60)
            /\ d = 1400 => v = Float(80)

C2_Witness ==
    VolumeReturned /\ calc_call.arg = 1050 /\ calc_result.value = Float(60)

\* C3: for an infusion number below 1 the dose lookup ends in InvalidArgument
\* and returns no dose.
C3_InvalidArgument ==
    (DoseReturned /\ calc_call.arg < 1) => calc_result.raised = "InvalidArgument"

\* C4: a Save into a log that is not empty gives the new record the id
\* max(ids in the log) + 1, in whatever order the ids sit in the log.
C4_IdIsMaxPlusOne ==
    [][\A log \in LogNames :
          (HasStore /\ Saved(log) /\ Log(log) # <<>>) =>
              Log(log)'[1].id = SetMax(IdSet(log)) + 1]_vars

\* a Save has put id 10 in front of a log whose ids were 2, 9, 5 in that order
C4_Witness ==
    /\ HasStore
    /\ run_event = "save_mri"
    /\ Ids(Log("mri_tracking")) = <<10, 2, 9, 5>>

C6_NewRecordFirst ==
    [][\A log \in LogNames :
          (HasStore /\ Saved(log)) =>
              /\ Len(Log(log)') = Len(Log(log)) + 1
              /\ \A i \in 1..Len(Log(log)) : Log(log)'[i + 1] = Log(log)[i]
              /\ First(Log(log)').raised = "none"
              /\ First(Log(log)').value.id \notin IdSet(log)]_vars

C6_Witness ==
    /\ HasStore
    /\ run_event = "save_aria"
    /\ Len(Log("aria_assessments")) = 4
    /\ Log("aria_assessments")[1].symptoms = <<"Weakness", "Nausea">>
    /\ SubSeq(Log("aria_assessments"), 2, 4) = SeedAriaAssessments

C8_CreatedEmpty ==
    run_event = "load" =>
        /\ \A log \in LogNames : Log(log) = <<>>
        /\ session_state["patient_data"].apoe4_status = "Not Tested"
        /\ session_state["patient_data"].overall_aria_risk = "Not Assessed"
        /\ session_state["patient_data"].symptomatic_aria = "Not Assessed"
        /\ session_state["patient_data"].serious_events = "Not Assessed"

\* C8 as amended: the first access creates the store with the sample data (5
\* infusions with ids 21..17, 5 MRI records with ids 5..1, 3 ARIA assessments
\* with ids 4..2, registry '123445', apoE4 'Homozygote (e4/e4)', rates '45%',
\* '9%' and '3%'), and the store stays so until the first append.
C8_CreatedWithSampleData ==
    /\ run_error.exc # "not_run" => HasStore
    /\ (HasStore /\ saves = 0) =>
        /\ Ids(Log("infusions")) = <<21, 20, 19, 18, 17>>
        /\ Ids(Log("mri_tracking")) = <<5, 4, 3, 2, 1>>
        /\ Ids(Log("aria_assessments")) = <<4, 3, 2>>
        /\ session_state["patient_data"].cms_registry = "123445"
        /\ session_state["patient_data"].apoe4_status = "Homozygote (e4/e4)"
        /\ session_state["patient_data"].overall_aria_risk = "45%"
        /\ session_state["patient_data"].symptomatic_aria = "9%"
        /\ session_state["patient_data"].serious_events = "3%"

C8_Witness ==
    /\ run_event = "load"
    /\ HasStore
    /\ saves = 0
    /\ Len(Log("infusions")) = 5

\* the type enumeration of an MRI record in the data model
MriTypes == { "Baseline", "Follow-up", "Safety" }

\* C9: every record in the MRI log has a type among Baseline, Follow-up and
\* Safety, whichever type was selected in the add-MRI form.
C9_MriTypeInEnum ==
    HasStore =>
        \A i \in 1..Len(Log("mri_tracking")) : Log("mri_tracking")[i].type \in MriTypes

\* C10: the record a Save of the add-infusion form stores has status
\* 'completed', the dose of the titration schedule for its infusion number,
\* and volume = dose / 350 * 20.
C10_SavedInfusionVolume ==
    [][(HasStore /\ Saved("infusions")) =>
          LET r == Log("infusions")'[1]
          IN  /\ r.status = "completed"
              /\ r.dose = (CASE r.number = 1 -> 350 [] r.number = 2 -> 700
                             [] r.number = 3 -> 1050 [] OTHER -> 1400)
              /\ r.volume.den > 0
              /\ 350 * r.volume.num = 20 * r.dose * r.volume.den]_vars

C10_Witness ==
    /\ HasStore
    /\ run_event = "save_infusion"
    /\ Len(Log("infusions")) = 6
    /\ Log("infusions")[1].number = 3
    /\ Log("infusions")[1].dose = 1050
    /\ Log("infusions")[1].volume = Float(60)
    /\ Log("infusions")[1].date = "2026-11-24"

ProfileScalars ==
    { "cms_registry", "apoe4_status", "overall_aria_risk", "symptomatic_aria",
      "serious_events" }

\* how many times a record occurs in a list
Occurrences(list, record) == Cardinality({ i \in 1..Len(list) : list[i] = record })

\* C12: a Save into one log changes only that log: the other two logs and the
\* five profile scalars (overall_aria_risk among them, also when an ARIA
\* assessment is saved) keep their values, and the target log keeps every
\* record it had, unmodified, and grows by exactly one record.
C12_SaveChangesOnlyItsLog ==
    [][\A log \in LogNames :
          (HasStore /\ Saved(log)) =>
              /\ DOMAIN session_state["patient_data"]' = DOMAIN session_state["patient_data"]
              /\ \A key \in (DOMAIN session_state["patient_data"]) \ {log} :
                     session_state["patient_data"]'[key] = session_state["patient_data"][key]
              /\ \A key \in ProfileScalars :
                     session_state["patient_data"]'[key] = session_state["patient_data"][key]
              /\ Len(Log(log)') = Len(Log(log)) + 1
              /\ \A i \in 1..Len(Log(log)) :
                     Occurrences(Log(log)', Log(log)[i]) = Occurrences(Log(log), Log(log)[i])]_vars

\* a severe ARIA assessment was saved and the rest of the store is the sample data
C12_Witness ==
    /\ HasStore
    /\ run_event = "save_aria"
    /\ Len(Log("aria_assessments")) = 4
    /\ Log("aria_assessments")[1].aria_e.flair_severity = "Severe"
    /\ Log("infusions") = SeedInfusions
    /\ Log("mri_tracking") = SeedMriTracking
    /\ session_state["patient_data"].overall_aria_risk = "45%"

FormFlag(log) ==
    CASE log = "infusions" -> "show_add_infusion"
      [] log = "mri_tracking" -> "show_add_mri"
      [] log = "aria_assessments" -> "show_add_aria"

CancelEvent(log) ==
    CASE log = "infusions" -> "cancel_infusion"
      [] log = "mri_tracking" -> "cancel_mri"
      [] log = "aria_assessments" -> "cancel_aria"

\* the flag of the form of log is in the session and is False
FlagOff(ss, log) == FormFlag(log) \in DOMAIN ss /\ ss[FormFlag(log)] = FALSE

\* C13: Cancel in any of the three forms leaves the three logs and the
\* patient profile as they were and sets the form's show_add_* flag to False;
\* a log gets a record only by the Save of its form, pressed while the form's
\* flag was True, and that Save sets the flag to False.
C13_CancelAndSaveFlags ==
    [][\A log \in LogNames :
          /\ (HasStore /\ run_event' = CancelEvent(log)) =>
                 /\ session_state'["patient_data"] = session_state["patient_data"]
                 /\ FlagOff(session_state', log)
          /\ (HasStore /\ Log(log)' # Log(log)) =>
                 /\ run_event' = SaveEvent(log)
                 /\ Shown(FormFlag(log))
                 /\ Len(Log(log)') = Len(Log(log)) + 1
          /\ (HasStore /\ Saved(log)) =>
                 /\ Shown(FormFlag(log))
                 /\ FlagOff(session_state', log)]_vars

\* an MRI record was saved, then the infusion form was opened and cancelled
C13_Witness ==
    /\ HasStore
    /\ run_event = "cancel_infusion"
    /\ FlagOff(session_state, "infusions")
    /\ FlagOff(session_state, "mri_tracking")
    /\ Log("infusions") = SeedInfusions
    /\ Len(Log("mri_tracking")) = 6

====
